---------------------------- MODULE Spec2Model ----------------------------
(***************************************************************************)
(* A model of src/src/_count.pyx (pydmc.count's helper module):            *)
(*   - LexicographicIterator and PermutationIterator, the two iterators    *)
(*     over index tuples, with the _IntArray buffer they gather through;   *)
(*   - count_permutations2/3/4, the closed-form multiset permutation      *)
(*     counters;                                                           *)
(*   - sort2_int/sort3_int/sort4_int, the fixed-arity sorting routines.    *)
(*                                                                         *)
(* C arrays and Python tuples are functions over 0..len-1, so that every   *)
(* index below is the index of the source.  The C ints hold values far     *)
(* below 2^31 within the bounds of the model, so int arithmetic is exact.  *)
(***************************************************************************)
EXTENDS Integers, Sequences, FiniteSets, TLC

VARIABLES
    k,                \* LexicographicIterator.k
    limits,           \* LexicographicIterator.limits (stored decremented)
    index_map,        \* LexicographicIterator.index_map
    increments,       \* LexicographicIterator.increments
    T,                \* LexicographicIterator.T
    perm,             \* PermutationIterator.perm
    objs,             \* the iterator's objs tuple
    generator_state,  \* the iterator's generator_state: 0, 1 or 2
    out,              \* log: what each call made so far gave its caller
    produced,         \* log: the index buffer at each pull that returned a tuple
    cur,              \* log: what current() gave since the last pull
    fn,               \* the pure function under call
    args,             \* its arguments
    pc,               \* "ready", "returned", "resorted" (pure functions)
    result,           \* what the call returned
    result2           \* what the function returned when applied to its result

vars == <<k, limits, index_map, increments, T, perm, objs, generator_state,
          out, produced, cur, fn, args, pc, result, result2>>

----------------------------------------------------------------------------
(* Bounds of the model *)

MaxPermN == 5      \* PermutationIterator: over 1..MaxPermN items
MaxN == 4          \* k-subsets and k-multisets: over 1..MaxN items
MaxK == 3          \* k-multisets: tuples of length 1..MaxK
MaxLim == 3        \* Cartesian product: each limit in 1..MaxLim
MaxStops == 2      \* pulls go on until this many end-of-sequence signals
MaxVal == 4        \* labels and integers of the pure functions: 1..MaxVal
AnyLim == 2        \* arbitrary configurations: each limit in 0..AnyLim

----------------------------------------------------------------------------
(* Tuples *)

\* The 0-based tuple with the elements of the sequence s.
Tup(s) == [i \in 0..(Len(s) - 1) |-> s[i + 1]]

len(t) == Cardinality(DOMAIN t)

ItemNames == <<"a", "b", "c", "d", "e", "f", "g", "h">>

\* A backing item sequence of n items.
Items(n) == [i \in 0..(n - 1) |-> ItemNames[i + 1]]

Max(S) == CHOOSE x \in S : \A y \in S : y <= x

\* What a call gives its caller: a tuple, or an exception.
Ret(kind, val) == [kind |-> kind, val |-> val]

----------------------------------------------------------------------------
(* _IntArray *)

\* map_to_tuple indexing as tuple_[n] does in Python: a negative index
\* counts from the end.
map_to_tuple_negative_indexing(data, tuple_) ==
    IF \E i \in DOMAIN data : data[i] < -len(tuple_) \/ data[i] >= len(tuple_)
    THEN Ret("IndexError", <<>>)
    ELSE Ret("tuple", [i \in DOMAIN data |-> tuple_[data[i] % len(tuple_)]])

\* _IntArray.map_to_tuple: position i of the result holds tuple_[data[i]];
\* PyTuple_GetItem gives NULL for an index outside 0..len-1, and IndexError
\* is raised in place of the tuple.
map_to_tuple(data, tuple_) ==
    IF \E i \in DOMAIN data : data[i] < 0 \/ data[i] >= len(tuple_)
    THEN Ret("IndexError", <<>>)
    ELSE Ret("tuple", [i \in DOMAIN data |-> tuple_[data[i]]])

\* What PyMem_Malloc'ed memory may hold before it is written.
Garbage == {-1, 0, 2}

----------------------------------------------------------------------------
(* LexicographicIterator *)

\* rollover_loop copying from the position before i, whatever index_map says.
RECURSIVE rollover_loop_from_previous(_, _, _, _, _, _)
rollover_loop_from_previous(Tb, i, kk, imap, incs, oob) ==
    IF i >= kk THEN Tb
    ELSE LET v == IF imap[i] < 0 THEN 0 ELSE Tb[i - 1] + incs[i]
         IN  rollover_loop_from_previous([Tb EXCEPT ![i] = v], i + 1, kk,
                                         imap, incs, oob)

\* rollover_loop with the increment forgotten.
RECURSIVE rollover_loop_no_increment(_, _, _, _, _, _)
rollover_loop_no_increment(Tb, i, kk, imap, incs, oob) ==
    IF i >= kk THEN Tb
    ELSE LET im == imap[i]
             v == IF im < 0 THEN 0
                  ELSE (IF im >= kk THEN oob ELSE Tb[im])
         IN  rollover_loop_no_increment([Tb EXCEPT ![i] = v], i + 1, kk,
                                        imap, incs, oob)

\* The loop of rollover_next from position i on: oob is what the read of
\* T[k], one past the buffer, gives.
RECURSIVE rollover_loop(_, _, _, _, _, _)
rollover_loop(Tb, i, kk, imap, incs, oob) ==
    IF i >= kk THEN Tb
    ELSE LET im == imap[i]
             v == IF im < 0 THEN 0
                  ELSE (IF im >= kk THEN oob ELSE Tb[im]) + incs[i]
         IN  rollover_loop([Tb EXCEPT ![i] = v], i + 1, kk, imap, incs, oob)

\* rollover_next leaving position g + 1 as it was.
rollover_next_skip_first(Tb, g, kk, imap, incs, oob) ==
    rollover_loop(Tb, g + 2, kk, imap, incs, oob)

\* rollover_next rolling over position g too.
rollover_next_from_g(Tb, g, kk, imap, incs, oob) ==
    rollover_loop(Tb, g, kk, imap, incs, oob)

rollover_next(Tb, g, kk, imap, incs, oob) ==
    rollover_loop(Tb, g + 1, kk, imap, incs, oob)

\* scan_g scanning upwards: the leftmost position below its limit.
scan_g_leftmost(Tb, lim, g) ==
    IF \E h \in 0..g : Tb[h] < lim[h]
    THEN CHOOSE h \in 0..g : /\ Tb[h] < lim[h]
                             /\ \A h2 \in 0..(h - 1) : ~(Tb[h2] < lim[h2])
    ELSE -1

\* The scan of _next: the rightmost g, from g0 down, with T[g] < limits[g];
\* -1 when the loop ends without break.
RECURSIVE scan_g(_, _, _)
scan_g(Tb, lim, g) ==
    IF g < 0 THEN -1
    ELSE IF Tb[g] < lim[g] THEN g
    ELSE scan_g(Tb, lim, g - 1)

\* __init__'s check of index_map.
index_map_rejected(imap, kk) == \E i \in 0..(kk - 1) : imap[i] > kk

init_index_map(imap, kk) ==
    [i \in 0..(kk - 1) |-> IF imap[i] < 0 THEN -1 ELSE imap[i]]

\* The configurations of the comment above the class.
CountingCfg(lims) ==
    [objs |-> Items(Max({lims[i] : i \in DOMAIN lims})),
     limits |-> lims,
     index_map |-> [i \in DOMAIN lims |-> -1],
     increments |-> [i \in DOMAIN lims |-> 0]]

MultisetsCfg(n, kk) ==
    [objs |-> Items(n),
     limits |-> [i \in 0..(kk - 1) |-> n],
     index_map |-> [i \in 0..(kk - 1) |-> i - 1],
     increments |-> [i \in 0..(kk - 1) |-> 0]]

SubsetsCfg(n, kk) ==
    [objs |-> Items(n),
     limits |-> [i \in 0..(kk - 1) |-> n - kk + i + 1],
     index_map |-> [i \in 0..(kk - 1) |-> i - 1],
     increments |-> [i \in 0..(kk - 1) |-> 1]]

\* First and fourth index swappable, and second and third.
SymmetryCfg(n) ==
    [objs |-> Items(n),
     limits |-> Tup(<<n, n, n, n>>),
     index_map |-> Tup(<<-1, -1, 1, 0>>),
     increments |-> Tup(<<0, 0, 0, 0>>)]

\* "second index strictly greater than first" over three items.
PairsCfg ==
    [objs |-> Tup(<<"a", "b", "c">>),
     limits |-> Tup(<<3, 3>>),
     index_map |-> Tup(<<-1, 0>>),
     increments |-> Tup(<<0, 1>>)]

\* The configurations a LexicographicIterator is constructed with.
LexConfigs ==
    {PairsCfg}
    \cup {SubsetsCfg(p[1], p[2]) :
             p \in {q \in (1..MaxN) \X (1..MaxN) : q[2] <= q[1]}}
    \cup {MultisetsCfg(p[1], p[2]) : p \in (1..MaxN) \X (1..MaxK)}
    \cup {CountingCfg(Tup(l)) : l \in (1..MaxLim) \X (1..MaxLim) \X (1..MaxLim)}
    \cup {SymmetryCfg(n) : n \in 1..MaxN}

\* lex_next with the rollover of the positions after g forgotten.
lex_next_no_rollover(Tb, gs, oob) ==
    LET g == scan_g(Tb, limits, k - 1)
    IN  IF g = -1
        THEN [T |-> Tb, generator_state |-> 2]
        ELSE [T |-> [Tb EXCEPT ![g] = Tb[g] + 1], generator_state |-> gs]

\* The increments of the arbitrary configurations.
AnyIncrements == {-1, 0, 1}

\* Arbitrary constructor arguments for tuples of length kk: every limit from
\* 0 on, every index_map entry from the sentinel to one past what __init__
\* accepts, over items enough for every limit.
AnyConfigsOf(kk) ==
    {[objs |-> Items(AnyLim + 1), limits |-> l, index_map |-> m,
      increments |-> d] :
        l \in [0..(kk - 1) -> 0..AnyLim],
        m \in [0..(kk - 1) -> (-1)..(kk + 1)],
        d \in [0..(kk - 1) -> AnyIncrements]}

\* The same for tuples of length kk with one positive limit and one
\* increment for all positions, and no index_map entry kk (the read one
\* past the buffer).
UniformConfigsOf(kk) ==
    {[objs |-> Items(AnyLim + 1), limits |-> [i \in 0..(kk - 1) |-> l],
      index_map |-> m, increments |-> [i \in 0..(kk - 1) |-> d]] :
        l \in 1..AnyLim,
        m \in [0..(kk - 1) -> ((-1)..(kk - 1)) \cup {kk + 1}],
        d \in AnyIncrements}

\* Every configuration of one and of two positions, and the uniform ones of
\* three.
AnyConfigs == AnyConfigsOf(1) \cup AnyConfigsOf(2) \cup UniformConfigsOf(3)

\* The configurations of kk positions whose index_map entries are the
\* sentinel or refer to a position below their own, with any limits and
\* increments.
BackReferenceConfigsOf(kk) ==
    {[objs |-> Items(AnyLim + 1), limits |-> l, index_map |-> m,
      increments |-> d] :
        l \in [0..(kk - 1) -> 0..AnyLim],
        m \in {f \in [0..(kk - 1) -> (-1)..(kk - 2)] :
                  \A i \in 0..(kk - 1) : f[i] < i},
        d \in [0..(kk - 1) -> AnyIncrements]}

\* Every such configuration of one and of two positions, and those of three
\* with one limit and one increment for all positions.
BackReferenceConfigs ==
    BackReferenceConfigsOf(1) \cup BackReferenceConfigsOf(2)
        \cup {c \in BackReferenceConfigsOf(3) :
                 /\ \A i \in 1..2 : c.limits[i] = c.limits[0]
                 /\ \A i \in 1..2 : c.increments[i] = c.increments[0]}

\* LexicographicIterator._next on buffer Tb: the buffer and the state flag
\* it leaves.
lex_next(Tb, gs, oob) ==
    LET g == scan_g(Tb, limits, k - 1)
    IN  IF g = -1
        THEN [T |-> Tb, generator_state |-> 2]
        ELSE [T |-> rollover_next([Tb EXCEPT ![g] = Tb[g] + 1], g, k,
                                  index_map, increments, oob),
              generator_state |-> gs]

\* lex_pull giving the end-of-sequence signal once and then starting over.
lex_pull_starting_over(Tb, gs, oob) ==
    IF gs = 0
    THEN [T |-> Tb, generator_state |-> 1, ret |-> map_to_tuple(Tb, objs)]
    ELSE IF gs = 2
    THEN [T |-> Tb, generator_state |-> 0, ret |-> Ret("StopIteration", <<>>)]
    ELSE LET nx == lex_next(Tb, gs, oob)
         IN  IF nx.generator_state = 2
             THEN [T |-> nx.T, generator_state |-> 2,
                   ret |-> Ret("StopIteration", <<>>)]
             ELSE [T |-> nx.T, generator_state |-> nx.generator_state,
                   ret |-> map_to_tuple(nx.T, objs)]

\* LexicographicIterator.__next__: the buffer and state flag it leaves, and
\* what it gives the caller.
lex_pull(Tb, gs, oob) ==
    IF gs = 0
    THEN [T |-> Tb, generator_state |-> 1, ret |-> map_to_tuple(Tb, objs)]
    ELSE IF gs = 2
    THEN [T |-> Tb, generator_state |-> 2, ret |-> Ret("StopIteration", <<>>)]
    ELSE LET nx == lex_next(Tb, gs, oob)
         IN  IF nx.generator_state = 2
             THEN [T |-> nx.T, generator_state |-> 2,
                   ret |-> Ret("StopIteration", <<>>)]
             ELSE [T |-> nx.T, generator_state |-> nx.generator_state,
                   ret |-> map_to_tuple(nx.T, objs)]

----------------------------------------------------------------------------
(* PermutationIterator *)

\* Step 1 of _next: the largest i, from i0 down, with perm[i+1] >= perm[i];
\* -1 when the loop ends without break.
RECURSIVE scan_i(_, _)
scan_i(p, i) ==
    IF i < 0 THEN -1
    ELSE IF p[i + 1] >= p[i] THEN i
    ELSE scan_i(p, i - 1)

\* Step 2 of _next: the largest j, from j0 down, with perm[j] >= pi.
RECURSIVE scan_j(_, _, _)
scan_j(p, pi, j) ==
    IF j < 0 THEN -1
    ELSE IF p[j] >= pi THEN j
    ELSE scan_j(p, pi, j - 1)

\* interchange with the store into perm[j] forgotten.
interchange_one_store(p, i, j) == [p EXCEPT ![i] = p[j]]

\* Step 3 of _next: interchange perm[i] and perm[j].
interchange(p, i, j) == [p EXCEPT ![i] = p[j], ![j] = p[i]]

\* Step 4 of _next: the loop reversing perm[i+1:], from position kx on.
RECURSIVE reverse_loop(_, _, _, _)
reverse_loop(p, kx, i, n) ==
    IF kx >= n THEN p
    ELSE LET kc == n - kx + i
         IN  IF kx >= kc THEN p
             ELSE reverse_loop(interchange(p, kx, kc), kx + 1, i, n)

\* reverse_tail with the reversal forgotten.
reverse_tail_skipped(p, i, n) == p

reverse_tail(p, i, n) == reverse_loop(p, i + 1, i, n)

\* PermutationIterator._next on buffer p.
perm_next(p, gs) ==
    LET n == len(p)
        i == scan_i(p, n - 2)
    IN  IF i = -1
        THEN [perm |-> p, generator_state |-> 2]
        ELSE LET j == scan_j(p, p[i], n - 1)
             IN  [perm |-> reverse_tail(interchange(p, i, j), i, n),
                  generator_state |-> gs]

\* PermutationIterator.__next__.
perm_pull(p, gs) ==
    IF gs = 0
    THEN [perm |-> p, generator_state |-> IF len(p) = 1 THEN 2 ELSE 1,
          ret |-> map_to_tuple(p, objs)]
    ELSE IF gs = 2
    THEN [perm |-> p, generator_state |-> 2, ret |-> Ret("StopIteration", <<>>)]
    ELSE LET nx == perm_next(p, gs)
         IN  IF nx.generator_state = 2
             THEN [perm |-> nx.perm, generator_state |-> 2,
                   ret |-> Ret("StopIteration", <<>>)]
             ELSE [perm |-> nx.perm, generator_state |-> nx.generator_state,
                   ret |-> map_to_tuple(nx.perm, objs)]

----------------------------------------------------------------------------
(* count_permutations2, count_permutations3, count_permutations4 *)

count_permutations2(l0, l1) == IF l0 = l1 THEN 1 ELSE 2

count_permutations3(l0, l1, l2) ==
    IF l0 = l1
    THEN (IF l1 = l2 THEN 1 ELSE 3)
    ELSE (IF l1 = l2 THEN 3
          ELSE IF l0 = l2 THEN 1
          ELSE 6)

\* The dict counts of count_permutations4 after its four increments.
label_counts(l0, l1, l2, l3) ==
    LET ls == <<l0, l1, l2, l3>>
    IN  [l \in {l0, l1, l2, l3} |-> Cardinality({i \in 1..4 : ls[i] = l})]

\* count_permutations4 telling aabb from aaab by counts[l0] >= 2.
count_permutations4_at_least_two(l0, l1, l2, l3) ==
    LET counts == label_counts(l0, l1, l2, l3)
        lc == Cardinality(DOMAIN counts)
    IN  IF lc = 1 THEN 1
        ELSE IF lc = 2 THEN (IF counts[l0] >= 2 THEN 6 ELSE 4)
        ELSE IF lc = 3 THEN 12
        ELSE 24

count_permutations4(l0, l1, l2, l3) ==
    LET counts == label_counts(l0, l1, l2, l3)
        lc == Cardinality(DOMAIN counts)
    IN  IF lc = 1 THEN 1
        ELSE IF lc = 2 THEN (IF counts[l0] = 2 THEN 6 ELSE 4)
        ELSE IF lc = 3 THEN 12
        ELSE 24

----------------------------------------------------------------------------
(* sort2_int, sort3_int, sort4_int *)

sort2_int(a, b) == IF a > b THEN <<b, a>> ELSE <<a, b>>

\* In the first branch s0 and s2 are interchanged, and s1 is then compared
\* with the new s2, which is the s0 passed in.
sort3_int(s0, s1, s2) ==
    IF s0 > s2
    THEN (IF s1 > s0 THEN <<s2, s0, s1>> ELSE <<s2, s1, s0>>)
    ELSE IF s0 > s1 THEN <<s1, s0, s2>>
    ELSE <<s0, s1, s2>>

\* sort4_int with its last comparison (s1 against s2) forgotten.
sort4_int_four_comparisons(i0, i1, i2, i3) ==
    LET s1a == IF i1 > i3 THEN i3 ELSE i1
        s3a == IF i1 > i3 THEN i1 ELSE i3
        s0a == IF i0 > i2 THEN i2 ELSE i0
        s2a == IF i0 > i2 THEN i0 ELSE i2
        s2b == IF s2a > s3a THEN s3a ELSE s2a
        s3b == IF s2a > s3a THEN s2a ELSE s3a
        s0b == IF s0a > s1a THEN s1a ELSE s0a
        s1b == IF s0a > s1a THEN s0a ELSE s1a
    IN  <<s0b, s1b, s2b, s3b>>

sort4_int(i0, i1, i2, i3) ==
    LET s1a == IF i1 > i3 THEN i3 ELSE i1
        s3a == IF i1 > i3 THEN i1 ELSE i3
        s0a == IF i0 > i2 THEN i2 ELSE i0
        s2a == IF i0 > i2 THEN i0 ELSE i2
        s2b == IF s2a > s3a THEN s3a ELSE s2a
        s3b == IF s2a > s3a THEN s2a ELSE s3a
        s0b == IF s0a > s1a THEN s1a ELSE s0a
        s1b == IF s0a > s1a THEN s0a ELSE s1a
        s1c == IF s1b > s2b THEN s2b ELSE s1b
        s2c == IF s1b > s2b THEN s1b ELSE s2b
    IN  <<s0b, s1c, s2c, s3b>>

----------------------------------------------------------------------------
(* The iterators as state machines *)

\* The number of end-of-sequence signals given so far.
Stops == Cardinality({i \in 1..Len(out) : out[i].kind = "StopIteration"})

NoLex ==
    /\ k = 0
    /\ limits = <<>>
    /\ index_map = <<>>
    /\ increments = <<>>
    /\ T = <<>>

NoPerm == perm = <<>>

NoFn ==
    /\ fn = "none"
    /\ args = <<>>
    /\ pc = "none"
    /\ result = <<>>
    /\ result2 = <<>>

\* LexicographicIterator(objs, limits, index_map, increments), for the
\* configurations of cfgs: the buffer T is malloc'ed, T[0] is set and the
\* other positions are rolled over.
LexConstruct(cfgs) ==
    \E c \in cfgs : \E garbage \in [DOMAIN c.limits -> Garbage], oob \in Garbage :
        LET kk == len(c.limits)
        IN  /\ k = kk
            /\ limits = [i \in 0..(kk - 1) |-> c.limits[i] - 1]
            /\ increments = c.increments
            /\ objs = c.objs
            /\ produced = <<>>
            /\ cur = Ret("none", <<>>)
            /\ IF index_map_rejected(c.index_map, kk)
               THEN /\ index_map = <<>>
                    /\ T = <<>>
                    /\ generator_state = -1
                    /\ out = <<Ret("ValueError", <<>>)>>
               ELSE /\ index_map = init_index_map(c.index_map, kk)
                    /\ T = rollover_next([garbage EXCEPT ![0] = 0], 0, kk,
                                         init_index_map(c.index_map, kk),
                                         c.increments, oob)
                    /\ generator_state = 0
                    /\ out = <<>>

LexInit ==
    /\ LexConstruct(LexConfigs)
    /\ NoPerm
    /\ NoFn

\* next(it) on a LexicographicIterator.
LexPull ==
    /\ generator_state \in {0, 1, 2}
    /\ Stops < MaxStops
    /\ \E oob \in Garbage :
        LET r == lex_pull(T, generator_state, oob)
        IN  /\ T' = r.T
            /\ generator_state' = r.generator_state
            /\ out' = Append(out, r.ret)
            /\ produced' = IF r.ret.kind = "tuple"
                           THEN Append(produced, r.T) ELSE produced
    /\ cur' = Ret("none", <<>>)
    /\ UNCHANGED <<k, limits, index_map, increments, perm, objs,
                   fn, args, pc, result, result2>>

\* it.current() on a LexicographicIterator.
LexCurrent ==
    /\ generator_state \in {0, 1, 2}
    /\ cur' = map_to_tuple(T, objs)
    /\ UNCHANGED <<k, limits, index_map, increments, T, perm, objs,
                   generator_state, out, produced, fn, args, pc, result,
                   result2>>

LexNext == LexPull \/ LexCurrent

SpecLex == LexInit /\ [][LexNext]_vars

\* The same iterator over arbitrary constructor arguments.
LexAnyInit ==
    /\ LexConstruct(AnyConfigs)
    /\ NoPerm
    /\ NoFn

SpecLexAny == LexAnyInit /\ [][LexNext]_vars

LexBackInit ==
    /\ LexConstruct(BackReferenceConfigs)
    /\ NoPerm
    /\ NoFn

\* The iterators with back references only, under a caller that keeps
\* pulling (for t in it: ...): a pull that can be made is made.
SpecLexBackFair == LexBackInit /\ [][LexNext]_vars /\ WF_vars(LexPull)

\* PermutationIterator(objs) over n items: perm is the identity.
PermConstruct ==
    \E n \in 1..MaxPermN :
        /\ objs = Items(n)
        /\ perm = [i \in 0..(n - 1) |-> i]
        /\ generator_state = 0
        /\ out = <<>>
        /\ produced = <<>>
        /\ cur = Ret("none", <<>>)

PermInit ==
    /\ PermConstruct
    /\ NoLex
    /\ NoFn

\* next(it) on a PermutationIterator.
PermPull ==
    /\ generator_state \in {0, 1, 2}
    /\ Stops < MaxStops
    /\ LET r == perm_pull(perm, generator_state)
       IN  /\ perm' = r.perm
           /\ generator_state' = r.generator_state
           /\ out' = Append(out, r.ret)
           /\ produced' = IF r.ret.kind = "tuple"
                          THEN Append(produced, r.perm) ELSE produced
    /\ cur' = Ret("none", <<>>)
    /\ UNCHANGED <<k, limits, index_map, increments, T, objs,
                   fn, args, pc, result, result2>>

\* it.current() on a PermutationIterator.
PermCurrent ==
    /\ generator_state \in {0, 1, 2}
    /\ cur' = map_to_tuple(perm, objs)
    /\ UNCHANGED <<k, limits, index_map, increments, T, perm, objs,
                   generator_state, out, produced, fn, args, pc, result,
                   result2>>

PermNext == PermPull \/ PermCurrent

SpecPerm == PermInit /\ [][PermNext]_vars

\* Either iterator: a LexicographicIterator over the configurations of the
\* source comment or over arbitrary ones, or a PermutationIterator.
IterInit == LexInit \/ LexAnyInit \/ PermInit

IterNext ==
    \/ NoPerm /\ LexNext
    \/ NoLex /\ PermNext

SpecIter == IterInit /\ [][IterNext]_vars

----------------------------------------------------------------------------
(* The pure functions as a state machine: one call, and for a sorting      *)
(* routine a second call on the tuple the first one returned.              *)

NoIterator ==
    /\ NoLex
    /\ NoPerm
    /\ objs = <<>>
    /\ generator_state = -1
    /\ out = <<>>
    /\ produced = <<>>
    /\ cur = Ret("none", <<>>)

Vals == 1..MaxVal

FnArgs ==
    [count_permutations2 |-> Vals \X Vals,
     count_permutations3 |-> Vals \X Vals \X Vals,
     count_permutations4 |-> Vals \X Vals \X Vals \X Vals,
     sort2_int |-> Vals \X Vals,
     sort3_int |-> Vals \X Vals \X Vals,
     sort4_int |-> Vals \X Vals \X Vals \X Vals]

FnInit ==
    /\ NoIterator
    /\ fn \in DOMAIN FnArgs
    /\ args \in FnArgs[fn]
    /\ pc = "ready"
    /\ result = <<>>
    /\ result2 = <<>>

Return(v) ==
    /\ result' = v
    /\ pc' = "returned"
    /\ UNCHANGED <<k, limits, index_map, increments, T, perm, objs,
                   generator_state, out, produced, cur, fn, args, result2>>

Call_count_permutations2 ==
    /\ pc = "ready" /\ fn = "count_permutations2"
    /\ Return(count_permutations2(args[1], args[2]))

Call_count_permutations3 ==
    /\ pc = "ready" /\ fn = "count_permutations3"
    /\ Return(count_permutations3(args[1], args[2], args[3]))

Call_count_permutations4 ==
    /\ pc = "ready" /\ fn = "count_permutations4"
    /\ Return(count_permutations4(args[1], args[2], args[3], args[4]))

Call_sort2_int ==
    /\ pc = "ready" /\ fn = "sort2_int"
    /\ Return(sort2_int(args[1], args[2]))

Call_sort3_int ==
    /\ pc = "ready" /\ fn = "sort3_int"
    /\ Return(sort3_int(args[1], args[2], args[3]))

Call_sort4_int ==
    /\ pc = "ready" /\ fn = "sort4_int"
    /\ Return(sort4_int(args[1], args[2], args[3], args[4]))

\* sort(sort(x)): the same routine applied to the tuple it returned.
SortAgain ==
    /\ pc = "returned"
    /\ fn \in {"sort2_int", "sort3_int", "sort4_int"}
    /\ result2' = CASE fn = "sort2_int" -> sort2_int(result[1], result[2])
                    [] fn = "sort3_int" ->
                           sort3_int(result[1], result[2], result[3])
                    [] fn = "sort4_int" ->
                           sort4_int(result[1], result[2], result[3], result[4])
    /\ pc' = "resorted"
    /\ UNCHANGED <<k, limits, index_map, increments, T, perm, objs,
                   generator_state, out, produced, cur, fn, args, result>>

FnNext ==
    \/ Call_count_permutations2
    \/ Call_count_permutations3
    \/ Call_count_permutations4
    \/ Call_sort2_int
    \/ Call_sort3_int
    \/ Call_sort4_int
    \/ SortAgain

SpecFn == FnInit /\ [][FnNext]_vars

----------------------------------------------------------------------------
(* Vocabulary of the properties *)

RECURSIVE Fact(_)
Fact(n) == IF n <= 1 THEN 1 ELSE n * Fact(n - 1)

\* The binomial coefficient C(n, r), by Pascal's rule.
RECURSIVE Binom(_, _)
Binom(n, r) ==
    IF r < 0 \/ r > n THEN 0
    ELSE IF r = 0 \/ r = n THEN 1
    ELSE Binom(n - 1, r - 1) + Binom(n - 1, r)

\* s comes strictly before t in lexicographic order.
LexLess(s, t) ==
    \E i \in DOMAIN s : s[i] < t[i] /\ \A j \in DOMAIN s : j < i => s[j] = t[j]

\* The last call gave the end-of-sequence signal.
EndSeen == Len(out) > 0 /\ out[Len(out)].kind = "StopIteration"

ProducedSet == {produced[i] : i \in 1..Len(produced)}

\* Every index produced so far is an index into objs.
ProducedInRange ==
    \A i \in 1..Len(produced) : \A j \in DOMAIN produced[i] :
        produced[i][j] \in 0..(len(objs) - 1)

\* The calls so far gave the item tuples of the index tuples produced, and
\* after them nothing but end-of-sequence signals.
OutIsGather ==
    /\ ProducedInRange
    /\ \A i \in 1..Len(out) :
        IF i <= Len(produced)
        THEN out[i] = Ret("tuple",
                          [j \in DOMAIN produced[i] |-> objs[produced[i][j]]])
        ELSE out[i].kind = "StopIteration"

IsPermutation(t, n) ==
    /\ DOMAIN t = 0..(n - 1)
    /\ \A v \in 0..(n - 1) : Cardinality({j \in DOMAIN t : t[j] = v}) = 1

----------------------------------------------------------------------------
(* PermutationIterator: the claims *)

\* C1: for every n >= 1, pulling PermutationIterator over n items until
\* end-of-sequence produces exactly n! index tuples, each a permutation of
\* 0..n-1, no two equal, each strictly greater in lexicographic order than
\* the one before it, the first being the identity (for n = 1: the identity
\* alone); the tuples returned are the items at those indices.
C1_PermutationsInOrder ==
    LET n == len(objs)
    IN  /\ OutIsGather
        /\ \A i \in 1..Len(produced) : IsPermutation(produced[i], n)
        /\ \A i \in 1..(Len(produced) - 1) :
               LexLess(produced[i], produced[i + 1])
        /\ Len(produced) > 0 => produced[1] = [j \in 0..(n - 1) |-> j]
        /\ Len(produced) <= Fact(n)
        /\ EndSeen => /\ Len(produced) = Fact(n)
                      /\ Cardinality(ProducedSet) = Fact(n)

\* The iterator over three items has given its six tuples and then the
\* end-of-sequence signal.
C1_Witness ==
    /\ len(objs) = 3
    /\ EndSeen
    /\ Len(produced) = 6
    /\ produced[6] = Tup(<<2, 1, 0>>)

\* The single-item iterator has given its one tuple and then ended.
C1_WitnessSingle == len(perm) = 1 /\ EndSeen /\ Len(produced) = 1

----------------------------------------------------------------------------
(* LexicographicIterator: the claims *)

\* The configuration the iterator was constructed with, read back from its
\* fields (limits is stored decremented).
IsPairs ==
    /\ objs = Tup(<<"a", "b", "c">>)
    /\ limits = Tup(<<2, 2>>)
    /\ index_map = Tup(<<-1, 0>>)
    /\ increments = Tup(<<0, 1>>)

IsSubsets ==
    /\ k >= 1 /\ k <= len(objs)
    /\ \A i \in 0..(k - 1) : /\ limits[i] + 1 = len(objs) - k + i + 1
                             /\ index_map[i] = i - 1
                             /\ increments[i] = 1

IsMultisets ==
    /\ k >= 1 /\ len(objs) >= 1
    /\ \A i \in 0..(k - 1) : /\ limits[i] + 1 = len(objs)
                             /\ index_map[i] = i - 1
                             /\ increments[i] = 0

IsCounting ==
    /\ k = 3
    /\ \A i \in 0..(k - 1) : /\ limits[i] + 1 >= 1
                             /\ index_map[i] = -1
                             /\ increments[i] = 0

\* C2: constructed with items ('a','b','c'), limits (3,3), index_map (-1,0),
\* increments (0,1), the first three pulls return ('a','b'), ('a','c'),
\* ('b','c') and every later pull gives the end-of-sequence signal: no other
\* tuple and no error.
C2_PairsScenario ==
    IsPairs =>
        \A i \in 1..Len(out) :
            out[i] = IF i = 1 THEN Ret("tuple", Tup(<<"a", "b">>))
                     ELSE IF i = 2 THEN Ret("tuple", Tup(<<"a", "c">>))
                     ELSE IF i = 3 THEN Ret("tuple", Tup(<<"b", "c">>))
                     ELSE Ret("StopIteration", <<>>)

\* The strictly increasing index tuples of length kk over 0..n-1.
IncreasingTuples(n, kk) ==
    {t \in [0..(kk - 1) -> 0..(n - 1)] :
        \A i \in 0..(kk - 2) : t[i] < t[i + 1]}

\* The non-decreasing index tuples of length kk over 0..n-1.
NonDecreasingTuples(n, kk) ==
    {t \in [0..(kk - 1) -> 0..(n - 1)] :
        \A i \in 0..(kk - 2) : t[i] <= t[i + 1]}

\* C3: configured for k-subsets of n items (1 <= k <= n), the iterator
\* produces before end-of-sequence exactly the C(n,k) strictly increasing
\* index tuples over 0..n-1, each exactly once.
C3_Subsets ==
    IsSubsets =>
        /\ OutIsGather
        /\ ProducedSet \subseteq IncreasingTuples(len(objs), k)
        /\ Cardinality(ProducedSet) = Len(produced)
        /\ EndSeen => /\ ProducedSet = IncreasingTuples(len(objs), k)
                      /\ Len(produced) = Binom(len(objs), k)

C3_Witness ==
    /\ IsSubsets /\ len(objs) = 4 /\ k = 2
    /\ EndSeen
    /\ Len(produced) = 6

\* C4: configured for k-multisets of n items (n >= 1, k >= 1), the iterator
\* produces before end-of-sequence exactly the C(n+k-1,k) non-decreasing
\* index tuples over 0..n-1, each exactly once.
C4_Multisets ==
    IsMultisets =>
        /\ OutIsGather
        /\ ProducedSet \subseteq NonDecreasingTuples(len(objs), k)
        /\ Cardinality(ProducedSet) = Len(produced)
        /\ EndSeen => /\ ProducedSet = NonDecreasingTuples(len(objs), k)
                      /\ Len(produced) = Binom(len(objs) + k - 1, k)

C4_Witness ==
    /\ IsMultisets /\ len(objs) = 3 /\ k = 2
    /\ EndSeen
    /\ Len(produced) = 6

\* The place of index tuple t in odometer order over limits (a,b,c), the
\* rightmost position varying fastest: its value as a mixed-radix numeral.
OdometerRank(t) ==
    (t[0] * (limits[1] + 1) + t[1]) * (limits[2] + 1) + t[2]

\* C5: configured as a plain Cartesian product over positive limits (a,b,c),
\* the iterator produces a*b*c tuples before end-of-sequence, in odometer
\* order: the first is (0,0,0) and each other one is the lexicographic
\* successor, within the limits, of the one before it.
C5_Odometer ==
    IsCounting =>
        /\ OutIsGather
        /\ \A i \in 1..Len(produced) :
              /\ \A j \in 0..2 : produced[i][j] \in 0..limits[j]
              /\ OdometerRank(produced[i]) = i - 1
        /\ EndSeen =>
              Len(produced) = (limits[0] + 1) * (limits[1] + 1) * (limits[2] + 1)

C5_Witness ==
    /\ IsCounting
    /\ limits = Tup(<<1, 2, 1>>)
    /\ EndSeen
    /\ Len(produced) = 12
    /\ produced[2] = Tup(<<0, 0, 1>>)

----------------------------------------------------------------------------
(* The counters and the sorting routines: the claims *)

\* The number of positions of tuple a that hold v.
Multiplicity(a, v) == Cardinality({i \in DOMAIN a : a[i] = v})

Distinct(a) == {a[i] : i \in DOMAIN a}

\* The multiplicities that occur in a.
Multiplicities(a) == {Multiplicity(a, v) : v \in Distinct(a)}

RECURSIVE FactProduct(_, _)
FactProduct(a, S) ==
    IF S = {} THEN 1
    ELSE LET v == CHOOSE x \in S : TRUE
         IN  Fact(Multiplicity(a, v)) * FactProduct(a, S \ {v})

\* The number of distinct orderings of the labels of a: len(a)!/prod(mult!).
Multinomial(a) == Fact(Len(a)) \div FactProduct(a, Distinct(a))

Ascending(t) == \A i \in 1..(Len(t) - 1) : t[i] <= t[i + 1]

\* t holds the values of a with the same multiplicities.
Rearrangement(t, a) ==
    /\ Len(t) = Len(a)
    /\ \A v \in Distinct(a) \cup Distinct(t) :
           Multiplicity(t, v) = Multiplicity(a, v)

Returned(f) == fn = f /\ pc \in {"returned", "resorted"}

\* C6: for every triple of labels, in every arrangement, count_permutations3
\* returns 1 if all three are equal, 3 if exactly two distinct values appear,
\* and 6 if all three are distinct.
C6_Count3 ==
    Returned("count_permutations3") =>
        result = CASE Cardinality(Distinct(args)) = 1 -> 1
                   [] Cardinality(Distinct(args)) = 2 -> 3
                   [] Cardinality(Distinct(args)) = 3 -> 6

\* C7: for every 4-tuple of labels, in every arrangement, count_permutations4
\* returns the multinomial coefficient 4!/prod(multiplicity!): 1 for one
\* distinct value, 6 for multiplicities {2,2}, 4 for {3,1}, 12 for {2,1,1},
\* 24 for four distinct values; so count(1,1,1,1)=1, count(1,1,2,2)=6,
\* count(1,1,1,2)=4, count(1,1,2,3)=12, count(1,2,3,4)=24.
C7_Count4 ==
    Returned("count_permutations4") =>
        /\ result = Multinomial(args)
        /\ result = CASE Multiplicities(args) = {4} -> 1
                      [] Multiplicities(args) = {2} -> 6
                      [] Multiplicities(args) = {1, 3} -> 4
                      [] Multiplicities(args) = {1, 2} -> 12
                      [] Multiplicities(args) = {1} -> 24
        /\ args = <<1, 1, 1, 1>> => result = 1
        /\ args = <<1, 1, 2, 2>> => result = 6
        /\ args = <<1, 1, 1, 2>> => result = 4
        /\ args = <<1, 1, 2, 3>> => result = 12
        /\ args = <<1, 2, 3, 4>> => result = 24

\* count_permutations4 has returned for two pairs of equal labels that are
\* not adjacent.
C7_Witness ==
    /\ Returned("count_permutations4")
    /\ args = <<2, 1, 1, 2>>
    /\ result = 6

\* C8: for every triple of integers, sort3_int returns a tuple in ascending
\* order that is a rearrangement of the three inputs; sort3_int(3,1,2) is
\* (1,2,3).
C8_Sort3 ==
    Returned("sort3_int") =>
        /\ Ascending(result)
        /\ Rearrangement(result, args)
        /\ args = <<3, 1, 2>> => result = <<1, 2, 3>>

\* C9: for every 4-tuple of integers, sort4_int returns a tuple in ascending
\* order that is a rearrangement of the four inputs (the same values with the
\* same multiplicities).
C9_Sort4 ==
    Returned("sort4_int") =>
        /\ Ascending(result)
        /\ Rearrangement(result, args)

\* sort4_int has returned for four integers in descending order.
C9_Witness ==
    /\ Returned("sort4_int")
    /\ args = <<4, 3, 2, 1>>
    /\ result = <<1, 2, 3, 4>>

\* C10: sorting is idempotent for each arity: sort2_int, sort3_int and
\* sort4_int applied to their own result return it unchanged.
C10_Idempotent == pc = "resorted" => result2 = result

\* The part of C10 that is about sort2_int and sort4_int.
C10_IdempotentSort2Sort4 ==
    (pc = "resorted" /\ fn \in {"sort2_int", "sort4_int"}) => result2 = result

----------------------------------------------------------------------------
(* The iterators: further claims *)

\* C16: in every state of PermutationIterator between pulls (after
\* construction, after each pull that returned a tuple, after the pull that
\* signalled end-of-sequence) perm holds each value of 0..n-1 exactly once.
C16_PermIsPermutation == IsPermutation(perm, len(objs))

\* A step over four items that interchanged perm[0] and perm[3] and reversed
\* the three positions after it: (0,3,2,1) became (1,0,2,3).
C16_Witness ==
    /\ perm = Tup(<<1, 0, 2, 3>>)
    /\ generator_state = 1
    /\ Len(produced) = 7
    /\ produced[6] = Tup(<<0, 3, 2, 1>>)

IsSymmetry ==
    /\ k = 4
    /\ \A i \in 0..3 : limits[i] + 1 = len(objs) /\ increments[i] = 0
    /\ index_map = Tup(<<-1, -1, 1, 0>>)

\* The index tuples over 0..n-1 with T[2] >= T[1] and T[3] >= T[0].
SymmetryTuples(n) ==
    {t \in [0..3 -> 0..(n - 1)] : t[2] >= t[1] /\ t[3] >= t[0]}

\* C18: with limits (n,n,n,n), index_map (-1,-1,1,0), increments (0,0,0,0),
\* n >= 1, the iterator produces before end-of-sequence exactly the index
\* tuples over 0..n-1 with T[2] >= T[1] and T[3] >= T[0], each exactly once
\* and in strictly increasing lexicographic order.
C18_Symmetry ==
    IsSymmetry =>
        /\ OutIsGather
        /\ ProducedSet \subseteq SymmetryTuples(len(objs))
        /\ \A i \in 1..(Len(produced) - 1) :
               LexLess(produced[i], produced[i + 1])
        /\ EndSeen => /\ ProducedSet = SymmetryTuples(len(objs))
                      /\ Len(produced) = Cardinality(SymmetryTuples(len(objs)))

\* Over three items the iterator has given its 36 tuples and ended.
C18_Witness ==
    /\ IsSymmetry /\ len(objs) = 3
    /\ EndSeen
    /\ Len(produced) = 36
    /\ produced[2] = Tup(<<0, 0, 0, 1>>)

\* The constructor returned an iterator.
Constructed == generator_state \in {0, 1, 2}

\* C12: for every configuration the constructor accepts, with positive
\* limits and any index_map and increments, every index of every tuple
\* produced lies in [0, limits[i]): 0 <= T[i] <= limits[i] - 1 for the limits
\* given at construction (the stored limits[i] is that maximum).
C12_ProducedWithinLimits ==
    (Constructed /\ \A i \in 0..(k - 1) : limits[i] + 1 > 0) =>
        \A n \in 1..Len(produced) : \A i \in 0..(k - 1) :
            0 <= produced[n][i] /\ produced[n][i] <= limits[i]

\* C13: construction succeeds only when every index_map[i] is the sentinel
\* (negative) or a valid position 0 <= index_map[i] < k, so that no accepted
\* entry makes the rollover rule read a position outside 0..k-1.
C13_IndexMapValidated ==
    Constructed =>
        \A i \in 0..(k - 1) : index_map[i] < 0 \/ index_map[i] \in 0..(k - 1)

\* C14: construction with a non-positive limits[i] fails, so that no
\* iterator over an empty index range ever produces a tuple.
C14_NonPositiveLimitsRejected ==
    (\E i \in 0..(k - 1) : limits[i] + 1 <= 0) =>
        ~Constructed /\ produced = <<>>

\* What the claims say a gather of index buffer buf from items gives: the
\* tuple of the items at those indices when every index is inside
\* [0, len(items)), an index-range error and no tuple otherwise.
Gathered(buf, items) ==
    IF \A i \in DOMAIN buf : buf[i] \in 0..(len(items) - 1)
    THEN [kind |-> "tuple", val |-> [i \in DOMAIN buf |-> items[buf[i]]]]
    ELSE [kind |-> "IndexError", val |-> <<>>]

\* C15: a pull that gathers (any pull but one that signals end-of-sequence),
\* and current(), fails with an index-range error and returns no tuple when
\* the index buffer it gathers from holds an index outside [0, len(items));
\* with every index inside it never fails and returns the tuple with
\* items[T[i]] at each position i.  A step that leaves out unchanged is a
\* call of current().
C15_GatherOrIndexError ==
    [][/\ (out' # out /\ out'[Len(out')].kind # "StopIteration") =>
              out'[Len(out')] = Gathered(T', objs)
       /\ out' = out => cur' = Gathered(T, objs)]_vars

\* Some pull failed on an index out of range, another returned a tuple, and
\* current() failed on a negative index.
C15_Witness ==
    /\ \E n \in 1..Len(out) : out[n].kind = "IndexError"
    /\ produced # <<>>
    /\ cur.kind = "IndexError"
    /\ \E i \in 0..(k - 1) : T[i] < 0

\* C11: the terminal state is absorbing for both iterators: once a pull
\* has given the end-of-sequence signal, every later pull gives it too and
\* none returns a tuple again, and the state flag never moves back from
\* exhausted (2) to running (1) or not started (0).
C11_TerminalAbsorbing ==
    [][/\ generator_state = 2 => generator_state' = 2
       /\ EndSeen => /\ generator_state = 2
                     /\ \/ out' = out
                        \/ out' = Append(out, Ret("StopIteration", <<>>))]_vars

\* A PermutationIterator has signalled end-of-sequence twice in a row.
C11_Witness ==
    /\ NoLex
    /\ generator_state = 2
    /\ Len(out) >= 2
    /\ out[Len(out) - 1].kind = "StopIteration"
    /\ out[Len(out)].kind = "StopIteration"

\* The same for a LexicographicIterator, after a pull that failed.
C11_WitnessLex ==
    /\ NoPerm
    /\ generator_state = 2
    /\ Len(out) >= 3
    /\ out[Len(out) - 2].kind = "IndexError"
    /\ out[Len(out) - 1].kind = "StopIteration"
    /\ out[Len(out)].kind = "StopIteration"

\* The last tuple a pull returned.
LastTuple ==
    LET n == CHOOSE m \in 1..Len(out) :
                 /\ out[m].kind = "tuple"
                 /\ \A j \in (m + 1)..Len(out) : out[j].kind # "tuple"
    IN  out[n]

\* The frame part of C20: a pull that signals end-of-sequence leaves the
\* index buffer (T or perm) unchanged, and current() (a step that leaves out
\* unchanged) changes neither the buffer nor the state flag.
C20_Frame ==
    [][/\ (out' # out /\ out'[Len(out')].kind = "StopIteration") =>
              (T' = T /\ perm' = perm)
       /\ out' = out => (T' = T /\ perm' = perm
                         /\ generator_state' = generator_state)]_vars

StepG == scan_g(T, limits, k - 1)

SuccessorStep == generator_state = 1 /\ out' # out /\ StepG # -1

\* The buffer of a successor step just before position i is rolled over:
\* T[g] incremented, the positions below i as the step leaves them, the
\* others as they were.
BeforeRollover(i) ==
    [j \in 0..(k - 1) |->
        IF j < i THEN T'[j] ELSE IF j = StepG THEN T[j] + 1 ELSE T[j]]

\* The same buffer just after position i is rolled over.
AfterRollover(i) == [BeforeRollover(i) EXCEPT ![i] = T'[i]]

\* What the constructor leaves in a position whose index_map entry is not
\* below it: the increment added to a value that was never stored.
ReadsUnstored(i) == T[i] - increments[i] \in Garbage

\* C17 as stated: for every index_map the constructor accepts, at
\* initialization and in every successor step incrementing g, each position
\* i > g holds, immediately after its rollover, 0 when index_map[i] is the
\* sentinel and otherwise T[index_map[i]] + increments[i], T being the buffer
\* at that moment; positions below g are unchanged and T[g] has grown by one.
C17_RolloverAsStated ==
    /\ [](generator_state = 0 =>
            /\ T[0] = 0
            /\ \A i \in 1..(k - 1) :
                 /\ index_map[i] = -1 => T[i] = 0
                 /\ (index_map[i] >= 0 /\ index_map[i] < i) =>
                        T[i] = T[index_map[i]] + increments[i]
                 /\ index_map[i] = i => T[i] = T[i] + increments[i]
                 /\ index_map[i] > i => ReadsUnstored(i))
    /\ [][SuccessorStep =>
            /\ \A j \in 0..(StepG - 1) : T'[j] = T[j]
            /\ T'[StepG] = T[StepG] + 1
            /\ \A i \in (StepG + 1)..(k - 1) :
                 /\ index_map[i] = -1 => T'[i] = 0
                 /\ (index_map[i] >= 0 /\ index_map[i] < k) =>
                        T'[i] = AfterRollover(i)[index_map[i]] + increments[i]
                 /\ index_map[i] = k => T'[i] - increments[i] \in Garbage
         ]_vars

\* C17, amended: the value rolled over into position i is taken from the
\* buffer as it is just before the store, so that with index_map[i] = i the
\* position grows by increments[i]; with index_map[i] = k the value read lies
\* one past the buffer, and at initialization an entry not below i reads a
\* value that was never stored.
C17_Rollover ==
    /\ [](generator_state = 0 =>
            /\ T[0] = 0
            /\ \A i \in 1..(k - 1) :
                 /\ index_map[i] = -1 => T[i] = 0
                 /\ (index_map[i] >= 0 /\ index_map[i] < i) =>
                        T[i] = T[index_map[i]] + increments[i]
                 /\ index_map[i] >= i => ReadsUnstored(i))
    /\ [][SuccessorStep =>
            /\ \A j \in 0..(StepG - 1) : T'[j] = T[j]
            /\ T'[StepG] = T[StepG] + 1
            /\ \A i \in (StepG + 1)..(k - 1) :
                 /\ index_map[i] = -1 => T'[i] = 0
                 /\ (index_map[i] >= 0 /\ index_map[i] < k) =>
                        T'[i] = BeforeRollover(i)[index_map[i]] + increments[i]
                 /\ index_map[i] = k => T'[i] - increments[i] \in Garbage
         ]_vars

\* A successor step has incremented position 0 and rolled position 1 over
\* from itself: (0, 1) became (1, 2).
C17_Witness ==
    /\ generator_state = 1
    /\ k = 2
    /\ index_map[1] = 1
    /\ increments[1] = 1
    /\ Len(out) = 3
    /\ Len(produced) = 3
    /\ produced[2] = Tup(<<0, 1>>)
    /\ produced[3] = Tup(<<1, 2>>)

\* A successor step has rolled position 1 over from position 2 before
\* position 2 was rolled over itself.
C17_WitnessOrder ==
    /\ generator_state = 1
    /\ k = 3
    /\ index_map[1] = 2
    /\ Len(out) = Len(produced)
    /\ Len(produced) >= 2
    /\ LET P1 == produced[Len(produced) - 1]
           P2 == produced[Len(produced)]
       IN  /\ P2[0] = P1[0] + 1
           /\ P2[1] = P1[2] + increments[1]
           /\ P2[1] # P2[2] + increments[1]

\* Every index_map entry is the sentinel or refers to a position below its
\* own.
BackReferences ==
    /\ Constructed
    /\ \A i \in 0..(k - 1) : index_map[i] = -1 \/ index_map[i] < i

\* C19: for every accepted configuration whose index_map entries are the
\* sentinel or less than their position, with any limits and increments,
\* repeated pulls reach the exhausted state after finitely many steps: every
\* step that changes the index tuple makes it strictly greater in
\* lexicographic order, a pull on a running iterator that does not change it
\* exhausts the iterator, and the exhausted state is eventually reached.
C19_Terminates ==
    /\ [][BackReferences =>
            /\ T' # T => LexLess(T, T')
            /\ (generator_state = 1 /\ out' # out /\ T' = T) =>
                   generator_state' = 2]_vars
    /\ (BackReferences /\ generator_state = 0) ~> (generator_state = 2)

\* An iterator whose position 1 starts one below position 0 is exhausted
\* after four tuples and a pull that failed.
C19_Witness ==
    /\ BackReferences
    /\ generator_state = 2
    /\ k = 2
    /\ index_map[1] = 0
    /\ increments[1] = -1
    /\ Len(produced) = 4
    /\ out[1].kind = "IndexError"
    /\ EndSeen

============================================================================
